---- MODULE Spec2Model ----
(***************************************************************************)
(* Model of the autostart launcher: the policy file loader (config.c), the *)
(* desktop entry parser, the directory scanner, the launch queue and the   *)
(* launch sequencer (src/autostart.c), the command sanitizer (util.c) and  *)
(* the threaded launcher of the single-file build (autostart.c).           *)
(*                                                                         *)
(* C strings are sequences of one-character strings.  A file is a sequence *)
(* of lines, each line what one fgets call returns without its newline.    *)
(***************************************************************************)
EXTENDS Integers, Sequences, FiniteSets, TLC

VARIABLES
  pc,          \* position of the control flow of the specification at hand
  sanIn,       \* remove_desktop_specifiers: the command as passed in
  san,         \* remove_desktop_specifiers: [buf, src, dst] of the loop
  cfg,         \* static struct Config cfg
  section,     \* config_load: char section[64]
  cfgPre,      \* config_load: the lines of the file's fixed first part not yet read
  cfgTail,     \* config_load: number of lines read after the fixed first part
  cfgLog,      \* history: every line read, its key and value, the section and counts it met
  parse,       \* parse_desktop_file: entry, in_desktop_entry, type_is_application, return
  dePre,       \* parse_desktop_file: the lines of the file's fixed first part not yet read
  deTail,      \* parse_desktop_file: number of lines read after the fixed first part
  deLog,       \* history: the lines fgets has returned
  app_queue,   \* static struct AppQueue app_queue: [apps, capacity]
  cfgRet,      \* main: what config_load returned, "none" if it was not called
  dirIdx,      \* main: index of the autostart directory being scanned (0-based)
  nread,       \* number of directory entries readdir has returned so far
  de,          \* scan_autostart_dir: struct DesktopEntry de
  total_found, \* scan_autostart_dir: int total_found
  queued,      \* scan_autostart_dir: int queued
  scanLog,     \* history: one record per .desktop file met by the scanner
  li,          \* launch_queued_apps: size_t i (0-based)
  success_count, \* launch_queued_apps: int success_count
  slept,       \* history: the delays passed to nanosleep, in order
  launches,    \* history: the run_command calls, in order
  children,    \* the child processes fork has created, in order
  added,       \* history: the entries passed to app_queue_add, in order
  threads,     \* threaded launch_queued_apps: pthread_t threads[app_queue.count]
  threads_created, \* threaded launch_queued_apps: int threads_created
  thr,         \* the launch threads pthread_create has started, in order
  detached,    \* history: the handles passed to pthread_detach, in order
  now          \* least time in ms the main thread has spent in launch_queued_apps

sanVars == <<sanIn, san>>
cfgVars == <<cfg, section, cfgPre, cfgTail, cfgLog>>
parseVars == <<parse, dePre, deTail, deLog>>
thrVars == <<threads, threads_created, thr, detached, now>>
mainVars == <<app_queue, cfgRet, dirIdx, nread, de, total_found, queued,
              scanLog, added, li, success_count, slept, launches, children,
              thrVars>>
vars == <<pc, sanIn, san, cfg, section, cfgPre, cfgTail, cfgLog,
          parse, dePre, deTail, deLog, app_queue, cfgRet, dirIdx, nread, de,
          total_found, queued, scanLog, added, li, success_count, slept, launches,
          children, threads, threads_created, thr, detached, now>>

(***************************************************************************)
(* Bounds of the model.                                                    *)
(***************************************************************************)
MaxCmdLen == 4        \* longest enumerated command string
MaxCfgLines == 3      \* policy file lines read after the file's fixed first part
MaxDesktopLines == 3  \* entry file lines read after the file's fixed first part
MaxDirEntries == 2    \* directory entries readdir returns over the whole run
MaxQueueLen == 3      \* longest launch queue handed to launch_queued_apps
MaxAppends == 11      \* app_queue_add calls made on one queue
MaxThreads == 7       \* longest queue handed to the threaded launch_queued_apps

(***************************************************************************)
(* Characters and C string helpers.                                        *)
(***************************************************************************)
NUL == "NUL"          \* the terminating zero byte of a C string

\* isspace() in the C locale.
IsSpace(c) == c \in {" ", "\t", "\n", "\r", "\f"}

Min(a, b) == IF a < b THEN a ELSE b

\* The first n characters of s (strncpy of at most n bytes into a zeroed field).
Take(s, n) == SubSeq(s, 1, Min(Len(s), n))

\* s without its first n characters.
Drop(s, n) == SubSeq(s, n + 1, Len(s))

\* Does s start with the characters of p (strncmp(s, p, strlen(p)) == 0)?
StartsWith(s, p) == Len(s) >= Len(p) /\ SubSeq(s, 1, Len(p)) = p

\* strstr(s, p) != NULL
Contains(s, p) ==
  \E i \in 1..(Len(s) - Len(p) + 1) : SubSeq(s, i, i + Len(p) - 1) = p

\* Index of the first character of s satisfying nothing but c, or 0.
IndexOf(s, c) ==
  IF \E i \in 1..Len(s) : s[i] = c
  THEN CHOOSE i \in 1..Len(s) : s[i] = c /\ \A j \in 1..(i - 1) : s[j] # c
  ELSE 0

\* util.c trim: skip leading whitespace, cut trailing whitespace.
trim(str) ==
  LET lead == IF \E i \in 1..Len(str) : ~IsSpace(str[i])
              THEN CHOOSE i \in 1..Len(str) :
                     ~IsSpace(str[i]) /\ \A j \in 1..(i - 1) : IsSpace(str[j])
              ELSE Len(str) + 1
      rest == SubSeq(str, lead, Len(str))
      last == IF rest = <<>> THEN 0
              ELSE CHOOSE i \in 1..Len(rest) :
                     ~IsSpace(rest[i]) /\ \A j \in (i + 1)..Len(rest) : IsSpace(rest[j])
  IN  SubSeq(rest, 1, last)

\* All sequences over S of length at most n.
RECURSIVE SeqsUpTo(_, _)
SeqsUpTo(S, n) ==
  IF n = 0 THEN {<<>>}
  ELSE LET shorter == SeqsUpTo(S, n - 1)
       IN  shorter \cup {Append(s, c) : s \in shorter, c \in S}

(***************************************************************************)
(* Words of the two file formats.                                          *)
(***************************************************************************)
W_general == <<"g","e","n","e","r","a","l">>
W_apps == <<"a","p","p","s">>
W_dirs == <<"d","i","r","s">>
W_other == <<"m","i","s","c">>
W_startup_delay == <<"s","t","a","r","t","u","p","_","d","e","l","a","y">>
W_delay == <<"d","e","l","a","y">>
W_allowc == <<"a","l","l","o","w",":">>
W_delayc == <<"d","e","l","a","y",":">>
W_block == <<"b","l","o","c","k">>
W_allow == <<"a","l","l","o","w">>
W_Firefox == <<"F","i","r","e","f","o","x">>
W_firefox == <<"f","i","r","e","f","o","x">>
W_vlc == <<"v","l","c">>
W_etc == <<"/","e","t","c">>
W_opt == <<"/","o","p","t">>
W_DesktopEntry == <<"D","e","s","k","t","o","p"," ","E","n","t","r","y">>
W_Type == <<"T","y","p","e">>
W_Name == <<"N","a","m","e">>
W_Exec == <<"E","x","e","c">>
W_TryExec == <<"T","r","y","E","x","e","c">>
W_Path == <<"P","a","t","h">>
W_Icon == <<"I","c","o","n">>
W_Terminal == <<"T","e","r","m","i","n","a","l">>
W_Hidden == <<"H","i","d","d","e","n">>
W_NoDisplay == <<"N","o","D","i","s","p","l","a","y">>
W_Application == <<"A","p","p","l","i","c","a","t","i","o","n">>
W_Link == <<"L","i","n","k">>
W_true == <<"t","r","u","e">>
W_ffcmd == <<"f","f"," ","%","u">>

Header(name) == <<"[">> \o name \o <<"]">>
KeyVal(k, v) == k \o <<"=">> \o v

(***************************************************************************)
(* config.h: the policy store.  The arrays apps[] and dirs[] with their    *)
(* counts are the sequences cfg.apps and cfg.dirs.                         *)
(***************************************************************************)
MAX_CFG_APPS == 128
MAX_CFG_DIRS == 32
SectionWidth == 63    \* sscanf "[%63[^]]"
KeyWidth == 255       \* sscanf "%255[^=]=%255[^\n]", and name[256]

app_count(c) == Len(c.apps)
dir_count(c) == Len(c.dirs)

\* config.c config_init: memset to zero, then the inter-item delay.
config_init ==
  [startup_delay_ms |-> 0, delay_ms |-> 200, log_level |-> 0,
   log_file |-> <<>>, apps |-> <<>>, dirs |-> <<>>]

Digits == <<"0","1","2","3","4","5","6","7","8","9">>
IsDigit(c) == \E d \in 1..10 : Digits[d] = c
DigitVal(c) == (CHOOSE d \in 1..10 : Digits[d] = c) - 1

\* The value of the leading run of digits of s, after the digits read so far.
RECURSIVE AtoiDigits(_, _)
AtoiDigits(s, acc) ==
  IF s = <<>> \/ ~IsDigit(s[1]) THEN acc
  ELSE AtoiDigits(Tail(s), 10 * acc + DigitVal(s[1]))

\* atoi: leading whitespace, an optional sign, then digits; 0 if there are none.
RECURSIVE atoi(_)
atoi(s) ==
  IF s = <<>> THEN 0
  ELSE IF IsSpace(s[1]) THEN atoi(Tail(s))
  ELSE IF s[1] = "-" THEN 0 - AtoiDigits(Tail(s), 0)
  ELSE IF s[1] = "+" THEN AtoiDigits(Tail(s), 0)
  ELSE AtoiDigits(s, 0)

\* The longest prefix of s, of at most n characters, without the character c.
ScanSet(s, c, n) ==
  LET stop == IndexOf(s, c)
      run == IF stop = 0 THEN Len(s) ELSE stop - 1
  IN  Take(s, Min(run, n))

\* sscanf(s, "[%63[^]]", section): the section is assigned only when at least
\* one character follows the bracket before a closing bracket.
ScanSection(s, sec) ==
  LET name == ScanSet(Tail(s), "]", SectionWidth)
  IN  IF name = <<>> THEN sec ELSE name

\* sscanf(s, "%255[^=]=%255[^\n]", key, val): the number of fields assigned,
\* and the fields.
ScanKeyVal(s) ==
  LET key == ScanSet(s, "=", KeyWidth)
      rest == Drop(s, Len(key))
      val == IF rest # <<>> /\ rest[1] = "="
             THEN ScanSet(Tail(rest), "\n", KeyWidth) ELSE <<>>
  IN  IF key = <<>> THEN [n |-> 0, key |-> <<>>, val |-> <<>>]
      ELSE IF val = <<>> THEN [n |-> 1, key |-> key, val |-> <<>>]
      ELSE [n |-> 2, key |-> key, val |-> val]

\* The tokens strtok(v, ",") returns one after the other: the non-empty runs
\* of characters between commas.
RECURSIVE strtok(_)
strtok(v) ==
  IF v = <<>> THEN <<>>
  ELSE IF v[1] = "," THEN strtok(Tail(v))
  ELSE LET tok == ScanSet(v, ",", Len(v))
       IN  <<tok>> \o strtok(Drop(v, Len(tok)))

\* A buggy variant: any "allow:" sub-token makes the rule allowing.
AppTokenAllowAlways(rule, token) ==
  LET t == trim(token)
  IN  IF StartsWith(t, W_allowc) THEN [rule EXCEPT !.allow = 1]
      ELSE IF StartsWith(t, W_delayc) THEN [rule EXCEPT !.delay_ms = atoi(Drop(t, 6))]
      ELSE rule

\* config.c lines 64-70: one sub-token of an [apps] value.
AppToken(rule, token) ==
  LET t == trim(token)
  IN  IF StartsWith(t, W_allowc) THEN [rule EXCEPT !.allow = atoi(Drop(t, 6))]
      ELSE IF StartsWith(t, W_delayc) THEN [rule EXCEPT !.delay_ms = atoi(Drop(t, 6))]
      ELSE rule

RECURSIVE AppTokens(_, _)
AppTokens(rule, tokens) ==
  IF tokens = <<>> THEN rule
  ELSE AppTokens(AppToken(rule, Head(tokens)), Tail(tokens))

\* config.c lines 56-73: the rule an [apps] line defines.
NewAppRule(k, v) ==
  AppTokens([name |-> Take(k, KeyWidth), allow |-> 1, delay_ms |-> -1], strtok(v))

\* config.c lines 75-77: the rule a [dirs] line defines.
NewDirRule(k, v) ==
  [path |-> k, allow |-> IF v = W_block THEN 1 ELSE 0]

\* A buggy variant: a full apps[] overwrites its last slot instead of dropping.
StoreAppOverwritesLast(c, rule) ==
  IF app_count(c) < MAX_CFG_APPS
  THEN [c EXCEPT !.apps = Append(c.apps, rule)]
  ELSE [c EXCEPT !.apps[MAX_CFG_APPS] = rule]

\* config.c lines 55-56: apps[app_count++], entered only below the capacity.
StoreApp(c, rule) ==
  IF app_count(c) < MAX_CFG_APPS
  THEN [c EXCEPT !.apps = Append(c.apps, rule)]
  ELSE c

\* config.c lines 74-75: dirs[dir_count++], entered only below the capacity.
StoreDir(c, rule) ==
  IF dir_count(c) < MAX_CFG_DIRS
  THEN [c EXCEPT !.dirs = Append(c.dirs, rule)]
  ELSE c

\* config.c lines 34-78: the body of the read loop for one line, on the
\* Config c and the current section.
CfgLine(c, sec, raw) ==
  LET s == trim(raw)
      same == [cfg |-> c, section |-> sec]
  IN  IF s = <<>> \/ s[1] = "#" THEN same
      ELSE IF s[1] = "[" THEN [cfg |-> c, section |-> ScanSection(s, sec)]
      ELSE LET kv == ScanKeyVal(s)
               k == trim(kv.key)
               v == trim(kv.val)
           IN  IF kv.n # 2 THEN same
               ELSE IF sec = W_general
               THEN IF k = W_startup_delay
                    THEN [same EXCEPT !.cfg.startup_delay_ms = atoi(v)]
                    ELSE IF k = W_delay
                    THEN [same EXCEPT !.cfg.delay_ms = atoi(v)]
                    ELSE same
               ELSE IF sec = W_apps
               THEN [same EXCEPT !.cfg = StoreApp(c, NewAppRule(k, v))]
               ELSE IF sec = W_dirs
               THEN [same EXCEPT !.cfg = StoreDir(c, NewDirRule(k, v))]
               ELSE same

\* config.c lines 33-79: the read loop over the lines of an opened file.
RECURSIVE CfgLines(_, _, _)
CfgLines(c, sec, lines) ==
  IF lines = <<>> THEN c
  ELSE LET r == CfgLine(c, sec, Head(lines))
       IN  CfgLines(r.cfg, r.section, Tail(lines))

\* config.c config_load on a file that opens: returns 0 and the Config filled.
config_load(c, lines) == CfgLines(c, <<>>, lines)

NULL == [name |-> <<>>, allow |-> 0, delay_ms |-> 0, null |-> TRUE]

\* A buggy variant: the loop keeps the last rule with that name.
config_find_app_last(c, name) ==
  IF \E i \in 1..app_count(c) : c.apps[i].name = name
  THEN c.apps[CHOOSE i \in 1..app_count(c) :
         /\ c.apps[i].name = name
         /\ \A j \in (i + 1)..app_count(c) : c.apps[j].name # name]
  ELSE NULL

\* config.c config_find_app: the rule at the first index i at which strcmp
\* finds the names equal, or NULL when the loop ends without one.
config_find_app(c, name) ==
  IF \E i \in 1..app_count(c) : c.apps[i].name = name
  THEN c.apps[CHOOSE i \in 1..app_count(c) :
         /\ c.apps[i].name = name
         /\ \A j \in 1..(i - 1) : c.apps[j].name # name]
  ELSE NULL

\* config.c config_dir_allowed: the allow of the first rule with that path, or 0.
config_dir_allowed(c, path) ==
  IF \E i \in 1..dir_count(c) : c.dirs[i].path = path
  THEN c.dirs[CHOOSE i \in 1..dir_count(c) :
         /\ c.dirs[i].path = path
         /\ \A j \in 1..(i - 1) : c.dirs[j].path # path].allow
  ELSE 0

(***************************************************************************)
(* autostart.c parse_desktop_file.                                         *)
(***************************************************************************)
NameWidth == 255      \* sizeof(entry->name) - 1, also tryexec and icon
ExecWidth == 1023     \* sizeof(entry->exec) - 1, also path

\* The entry after memset(entry, 0, sizeof(struct DesktopEntry)).
ZeroEntry ==
  [name |-> <<>>, exec |-> <<>>, tryexec |-> <<>>, icon |-> <<>>, path |-> <<>>,
   terminal |-> 0, hidden |-> 0, nodisplay |-> 0, valid |-> 0]

BoolInt(b) == IF b THEN 1 ELSE 0

\* The locals of parse_desktop_file once the file is open (lines 137-142).
ParseStart ==
  [entry |-> ZeroEntry, in_desktop_entry |-> FALSE,
   type_is_application |-> FALSE, returned |-> FALSE, ret |-> 0]

\* A buggy variant: a Type other than Application does not end the parse.
ParseKeyNoShortCircuit(st, key, value) ==
  IF key = W_Type
  THEN [st EXCEPT !.type_is_application = (value = W_Application)]
  ELSE IF key = W_Name THEN [st EXCEPT !.entry.name = Take(value, NameWidth)]
  ELSE IF key = W_Exec THEN [st EXCEPT !.entry.exec = Take(value, ExecWidth)]
  ELSE IF key = W_Hidden THEN [st EXCEPT !.entry.hidden = BoolInt(value = W_true)]
  ELSE st

\* Lines 170-192: the effect of one key and value.
ParseKey(st, key, value) ==
  IF key = W_Type
  THEN IF value # W_Application
       THEN [st EXCEPT !.returned = TRUE, !.ret = 0]
       ELSE [st EXCEPT !.type_is_application = TRUE]
  ELSE IF key = W_Name THEN [st EXCEPT !.entry.name = Take(value, NameWidth)]
  ELSE IF key = W_Exec THEN [st EXCEPT !.entry.exec = Take(value, ExecWidth)]
  ELSE IF key = W_TryExec THEN [st EXCEPT !.entry.tryexec = Take(value, NameWidth)]
  ELSE IF key = W_Path THEN [st EXCEPT !.entry.path = Take(value, ExecWidth)]
  ELSE IF key = W_Icon THEN [st EXCEPT !.entry.icon = Take(value, NameWidth)]
  ELSE IF key = W_Terminal THEN [st EXCEPT !.entry.terminal = BoolInt(value = W_true)]
  ELSE IF key = W_Hidden THEN [st EXCEPT !.entry.hidden = BoolInt(value = W_true)]
  ELSE IF key = W_NoDisplay THEN [st EXCEPT !.entry.nodisplay = BoolInt(value = W_true)]
  ELSE st

\* Lines 153: the section test on a header line.
IsDesktopEntryHeader(trimmed) == Contains(trimmed, Header(W_DesktopEntry))

\* Lines 145-192: the body of the read loop for one line.
ParseLine(st, raw) ==
  LET trimmed == trim(raw)
      sep == IndexOf(trimmed, "=")
  IN  IF trimmed = <<>> \/ trimmed[1] = "#" THEN st
      ELSE IF trimmed[1] = "["
      THEN [st EXCEPT !.in_desktop_entry = IsDesktopEntryHeader(trimmed)]
      ELSE IF ~st.in_desktop_entry THEN st
      ELSE IF sep = 0 THEN st
      ELSE ParseKey(st, trim(SubSeq(trimmed, 1, sep - 1)), trim(Drop(trimmed, sep)))

\* A buggy variant: the Exec field is not required.
ParseEndIgnoresExec(st) ==
  LET ok == st.type_is_application /\ Len(st.entry.name) > 0
  IN  [st EXCEPT !.entry.valid = BoolInt(ok), !.returned = TRUE,
                 !.ret = BoolInt(ok)]

\* Lines 195-203: after the loop, validate the required fields and return.
ParseEnd(st) ==
  LET ok == st.type_is_application /\ Len(st.entry.name) > 0
            /\ Len(st.entry.exec) > 0
  IN  [st EXCEPT !.entry.valid = BoolInt(ok), !.returned = TRUE,
                 !.ret = BoolInt(ok)]

RECURSIVE ParseLines(_, _)
ParseLines(st, lines) ==
  IF st.returned THEN st
  ELSE IF lines = <<>> THEN ParseEnd(st)
  ELSE ParseLines(ParseLine(st, Head(lines)), Tail(lines))

\* parse_desktop_file on a file that opens: the return value and the entry.
parse_desktop_file(lines) == ParseLines(ParseStart, lines)

(***************************************************************************)
(* util.c remove_desktop_specifiers: the in-place copy loop over the       *)
(* buffer cmd, with the read pointer src and the write pointer dst.        *)
(***************************************************************************)
\* The C string held in a buffer: the characters before the first NUL.
CStr(buf) == SubSeq(buf, 1, IndexOf(buf, NUL) - 1)

RdsStart(cmd) == [buf |-> cmd \o <<NUL>>, src |-> 1, dst |-> 1, done |-> FALSE]

\* A buggy variant: the marker is dropped but the character after it is kept.
RdsStepKeepsSpecifier(st) ==
  IF st.buf[st.src] = NUL
  THEN [st EXCEPT !.buf[st.dst] = NUL, !.done = TRUE]
  ELSE IF st.buf[st.src] = "%"
  THEN [st EXCEPT !.src = st.src + 1]
  ELSE [st EXCEPT !.buf[st.dst] = st.buf[st.src],
                  !.src = st.src + 1, !.dst = st.dst + 1]

\* A buggy variant: the character after a marker is dropped but the marker
\* itself is copied.
RdsStepKeepsMarker(st) ==
  IF st.buf[st.src] = NUL
  THEN [st EXCEPT !.buf[st.dst] = NUL, !.done = TRUE]
  ELSE IF st.buf[st.src] = "%"
  THEN [st EXCEPT !.buf[st.dst] = "%", !.dst = st.dst + 1,
                  !.src = IF st.buf[st.src + 1] # NUL
                          THEN st.src + 2 ELSE st.src + 1]
  ELSE [st EXCEPT !.buf[st.dst] = st.buf[st.src],
                  !.src = st.src + 1, !.dst = st.dst + 1]

\* One evaluation of the loop condition and, if it holds, of the loop body.
RdsStep(st) ==
  IF st.buf[st.src] = NUL
  THEN [st EXCEPT !.buf[st.dst] = NUL, !.done = TRUE]
  ELSE IF st.buf[st.src] = "%"
  THEN IF st.buf[st.src + 1] # NUL
       THEN [st EXCEPT !.src = st.src + 2]
       ELSE [st EXCEPT !.src = st.src + 1]
  ELSE [st EXCEPT !.buf[st.dst] = st.buf[st.src],
                  !.src = st.src + 1, !.dst = st.dst + 1]

RECURSIVE RdsRun(_)
RdsRun(st) == IF st.done THEN st ELSE RdsRun(RdsStep(st))

remove_desktop_specifiers(cmd) == CStr(RdsRun(RdsStart(cmd)).buf)

\* Inputs of the sanitizer: every short string over a marker, a field-code
\* letter and a space, and the two commands the specification names.
SanChars == {"%", "u", " "}
CmdFirefox ==
  <<"f","i","r","e","f","o","x"," ","%","u"," ","-","-","n","e","w","-",
    "w","i","n","d","o","w">>
CmdFirefoxClean ==
  <<"f","i","r","e","f","o","x"," "," ","-","-","n","e","w","-",
    "w","i","n","d","o","w">>
CmdTrailing == <<"c","m","d"," ","%">>
CmdTrailingClean == <<"c","m","d"," ">>
SanInputs == SeqsUpTo(SanChars, MaxCmdLen) \cup {CmdFirefox, CmdTrailing}

\* The variables of the parts a specification does not exercise.
SanIdle == sanIn = <<>> /\ san = RdsStart(<<>>)
CfgIdle ==
  /\ cfg = config_init /\ section = <<>> /\ cfgPre = <<>> /\ cfgTail = 0
  /\ cfgLog = <<>>
ParseIdle == parse = ParseStart /\ dePre = <<>> /\ deTail = 0 /\ deLog = <<>>
ThrIdle ==
  /\ threads = <<>> /\ threads_created = 0 /\ thr = <<>> /\ detached = <<>>
  /\ now = 0
MainIdle ==
  /\ app_queue = [apps |-> <<>>, capacity |-> 0]
  /\ cfgRet = "none" /\ dirIdx = 0 /\ nread = 0 /\ de = ZeroEntry
  /\ total_found = 0 /\ queued = 0 /\ scanLog = <<>> /\ added = <<>>
  /\ li = 0 /\ success_count = 0 /\ slept = <<>> /\ launches = <<>> /\ children = <<>>
  /\ ThrIdle

SanInit ==
  /\ pc = "sanitize"
  /\ sanIn \in SanInputs
  /\ san = RdsStart(sanIn)
  /\ CfgIdle /\ ParseIdle /\ MainIdle

SanLoop ==
  /\ pc = "sanitize"
  /\ ~san.done
  /\ san' = RdsStep(san)
  /\ UNCHANGED <<pc, sanIn>>
  /\ UNCHANGED <<cfgVars, parseVars, mainVars>>

SanReturn ==
  /\ pc = "sanitize"
  /\ san.done
  /\ pc' = "sanitized"
  /\ UNCHANGED <<sanIn, san>>
  /\ UNCHANGED <<cfgVars, parseVars, mainVars>>

SanNext == SanLoop \/ SanReturn

SpecSanitize == SanInit /\ [][SanNext]_vars

(***************************************************************************)
(* config_load, line by line.  The file read is a fixed first part (empty, *)
(* or a section that fills a rule array up to or just below its capacity)  *)
(* followed by at most MaxCfgLines lines drawn from CfgCorpus, or from     *)
(* CfgCapacityCorpus after a non-empty first part.                         *)
(***************************************************************************)
RECURSIVE ToDigits(_)
ToDigits(n) ==
  IF n < 10 THEN <<Digits[n + 1]>>
  ELSE ToDigits(n \div 10) \o <<Digits[(n % 10) + 1]>>

BulkName(i) == <<"a">> \o ToDigits(i)
BulkPath(i) == <<"/">> \o ToDigits(i)

\* "[apps]" and n lines "a<i>=allow:1".
BulkApps(n) ==
  <<Header(W_apps)>> \o [i \in 1..n |-> KeyVal(BulkName(i), W_allowc \o <<"1">>)]

\* "[dirs]" and n lines "/<i>=allow".
BulkDirs(n) ==
  <<Header(W_dirs)>> \o [i \in 1..n |-> KeyVal(BulkPath(i), W_allow)]

CfgPrefixes ==
  {<<>>, BulkApps(MAX_CFG_APPS - 1), BulkApps(MAX_CFG_APPS),
   BulkDirs(MAX_CFG_DIRS - 1), BulkDirs(MAX_CFG_DIRS)}

CfgCorpus ==
  { Header(W_general), Header(W_apps), Header(W_dirs), Header(W_other),
    KeyVal(W_delay, <<"5","0">>),
    KeyVal(W_firefox, W_allowc \o <<"0">>),
    KeyVal(W_firefox, W_allowc \o <<"1",",">> \o W_delayc \o <<"5","0","0">>),
    <<" ">> \o W_vlc \o <<" ","="," ">> \o W_delayc \o <<"3","0"," ",",">>
      \o <<"f","a","s","t",",">> \o W_allowc \o <<"x">>,
    Header(<<>>),
    KeyVal(W_Firefox, W_allowc \o <<"0">>),
    KeyVal(W_vlc, <<>>),
    KeyVal(W_etc, W_block),
    KeyVal(W_etc, W_allow) }

\* The lines that follow a first part that fills a rule array: those that
\* store a rule or a delay, and the headers of their sections.
CfgCapacityCorpus ==
  { Header(W_general), Header(W_apps), Header(W_dirs),
    KeyVal(W_delay, <<"5","0">>),
    KeyVal(W_firefox, W_allowc \o <<"0">>),
    KeyVal(W_etc, W_block) }

\* The lines the next read may return: the history is longer than the tail
\* read exactly when the file had a non-empty first part.
CfgTailCorpus ==
  IF Len(cfgLog) = cfgTail THEN CfgCorpus ELSE CfgCapacityCorpus

CfgInit ==
  /\ pc = "open"
  /\ cfg = config_init
  /\ section = <<>>
  /\ cfgPre \in CfgPrefixes
  /\ cfgTail = 0
  /\ cfgLog = <<>>
  /\ SanIdle /\ ParseIdle /\ MainIdle

\* fopen succeeds.
CfgOpen ==
  /\ pc = "open"
  /\ pc' = "load"
  /\ UNCHANGED cfgVars
  /\ UNCHANGED <<sanVars, parseVars, mainVars>>

\* fopen fails: config_load returns -1.
CfgOpenFail ==
  /\ pc = "open"
  /\ pc' = "nofile"
  /\ UNCHANGED cfgVars
  /\ UNCHANGED <<sanVars, parseVars, mainVars>>

\* The key and the value of a line read, as the loader splits it; n = 2 for
\* a key=value line.
LineKV(raw) ==
  LET s == trim(raw)
  IN  IF s = <<>> \/ s[1] = "#" \/ s[1] = "["
      THEN [n |-> 0, key |-> <<>>, val |-> <<>>]
      ELSE LET kv == ScanKeyVal(s)
           IN  [n |-> kv.n, key |-> trim(kv.key), val |-> trim(kv.val)]

\* The text a header line brackets: what follows "[" up to the first "]".
BracketedText(raw) == ScanSet(Tail(trim(raw)), "]", Len(raw))

\* The bracketed text of the most recent header line among the lines read
\* and the line raw, or NoHeader.
NoHeader == <<"(none)">>
HeaderSoFar(raw) ==
  IF trim(raw) # <<>> /\ trim(raw)[1] = "[" THEN BracketedText(raw)
  ELSE IF cfgLog = <<>> THEN NoHeader
  ELSE cfgLog[Len(cfgLog)].header

\* One iteration of the read loop on the line raw.
CfgRead(raw) ==
  LET r == CfgLine(cfg, section, raw)
  IN  /\ cfg' = r.cfg
      /\ section' = r.section
      /\ cfgLog' = Append(cfgLog, [section |-> section, raw |-> raw,
                                   n |-> LineKV(raw).n, key |-> LineKV(raw).key,
                                   val |-> LineKV(raw).val,
                                   apps |-> app_count(cfg), dirs |-> dir_count(cfg),
                                   header |-> HeaderSoFar(raw)])

CfgReadPre ==
  /\ pc = "load"
  /\ cfgPre # <<>>
  /\ CfgRead(Head(cfgPre))
  /\ cfgPre' = Tail(cfgPre)
  /\ UNCHANGED <<pc, cfgTail>>
  /\ UNCHANGED <<sanVars, parseVars, mainVars>>

CfgReadLine ==
  /\ pc = "load"
  /\ cfgPre = <<>>
  /\ cfgTail < MaxCfgLines
  /\ \E raw \in CfgTailCorpus : CfgRead(raw)
  /\ cfgTail' = cfgTail + 1
  /\ UNCHANGED <<pc, cfgPre>>
  /\ UNCHANGED <<sanVars, parseVars, mainVars>>

\* fgets returns NULL: fclose, return 0.
CfgEof ==
  /\ pc = "load"
  /\ cfgPre = <<>>
  /\ pc' = "loaded"
  /\ UNCHANGED cfgVars
  /\ UNCHANGED <<sanVars, parseVars, mainVars>>

CfgNext == CfgOpen \/ CfgOpenFail \/ CfgReadPre \/ CfgReadLine \/ CfgEof

SpecConfig == CfgInit /\ [][CfgNext]_vars

(***************************************************************************)
(* parse_desktop_file, line by line.  The file read is a fixed first part  *)
(* (empty, or a section header with a Name and an Exec line) followed by   *)
(* at most MaxDesktopLines lines drawn from DesktopCorpus.                 *)
(***************************************************************************)
L_DesktopEntry == Header(W_DesktopEntry)
L_NotQuiteDesktopEntry == Header(W_DesktopEntry) \o <<"x">>
L_OtherSection == Header(W_other)
L_TypeApplication == KeyVal(W_Type, W_Application)
L_TypeLink == KeyVal(W_Type, W_Link)
L_NameFirefox == <<" ">> \o W_Name \o <<" ","="," ">> \o W_firefox
L_NameEmpty == KeyVal(W_Name, <<>>)
L_ExecFirefox == KeyVal(W_Exec, W_ffcmd)
L_HiddenTrue == KeyVal(W_Hidden, W_true)

DesktopPrefixes == {<<>>, <<L_DesktopEntry, L_NameFirefox, L_ExecFirefox>>}

DesktopCorpus ==
  { L_DesktopEntry, L_NotQuiteDesktopEntry, L_OtherSection, L_TypeApplication,
    L_TypeLink, L_NameFirefox, L_NameEmpty, L_ExecFirefox, L_HiddenTrue }

ParseInit ==
  /\ pc = "fopen"
  /\ parse = ParseStart
  /\ dePre \in DesktopPrefixes
  /\ deTail = 0
  /\ deLog = <<>>
  /\ SanIdle /\ CfgIdle /\ MainIdle

\* fopen succeeds: the entry is zeroed.
ParseOpen ==
  /\ pc = "fopen"
  /\ pc' = "parse"
  /\ UNCHANGED parseVars
  /\ UNCHANGED <<sanVars, cfgVars, mainVars>>

\* fopen fails: return 0, the entry is not touched.
ParseOpenFail ==
  /\ pc = "fopen"
  /\ pc' = "unreadable"
  /\ UNCHANGED parseVars
  /\ UNCHANGED <<sanVars, cfgVars, mainVars>>

\* One iteration of the read loop on the line raw; a return inside it ends
\* the call.
ParseRead(raw) ==
  /\ parse' = ParseLine(parse, raw)
  /\ deLog' = Append(deLog, raw)
  /\ pc' = IF parse'.returned THEN "parsed" ELSE "parse"

ParseReadPre ==
  /\ pc = "parse"
  /\ dePre # <<>>
  /\ ParseRead(Head(dePre))
  /\ dePre' = Tail(dePre)
  /\ UNCHANGED deTail
  /\ UNCHANGED <<sanVars, cfgVars, mainVars>>

ParseReadLine ==
  /\ pc = "parse"
  /\ dePre = <<>>
  /\ deTail < MaxDesktopLines
  /\ \E raw \in DesktopCorpus : ParseRead(raw)
  /\ deTail' = deTail + 1
  /\ UNCHANGED dePre
  /\ UNCHANGED <<sanVars, cfgVars, mainVars>>

\* fgets returns NULL: fclose, validate, return entry->valid.
ParseEof ==
  /\ pc = "parse"
  /\ dePre = <<>>
  /\ parse' = ParseEnd(parse)
  /\ pc' = "parsed"
  /\ UNCHANGED <<dePre, deTail, deLog>>
  /\ UNCHANGED <<sanVars, cfgVars, mainVars>>

ParseNext ==
  ParseOpen \/ ParseOpenFail \/ ParseReadPre \/ ParseReadLine \/ ParseEof

SpecParse == ParseInit /\ [][ParseNext]_vars

(***************************************************************************)
(* The entry file format as the specification words it, read off the       *)
(* history of lines.                                                       *)
(***************************************************************************)
IsHeaderLine(raw) == trim(raw) # <<>> /\ trim(raw)[1] = "["
IsCommentLine(raw) == trim(raw) = <<>> \/ trim(raw)[1] = "#"
IsKVLine(raw) ==
  ~IsHeaderLine(raw) /\ ~IsCommentLine(raw) /\ IndexOf(trim(raw), "=") # 0
KeyOf(raw) == trim(SubSeq(trim(raw), 1, IndexOf(trim(raw), "=") - 1))
ValOf(raw) == trim(Drop(trim(raw), IndexOf(trim(raw), "=")))

\* Is the most recent header line before line i of log one that Opens(header)?
SectionAt(log, i, Opens(_)) ==
  \E j \in 1..(i - 1) :
    /\ IsHeaderLine(log[j]) /\ Opens(trim(log[j]))
    /\ \A k \in (j + 1)..(i - 1) : ~IsHeaderLine(log[k])

NamesDesktopEntry(header) == header = L_DesktopEntry

\* Line i is a key=value line of a section named exactly "Desktop Entry".
InDesktopEntry(log, i) ==
  IsKVLine(log[i]) /\ SectionAt(log, i, NamesDesktopEntry)

\* Line i is a key=value line after a header containing "[Desktop Entry]".
InGatedSection(log, i) ==
  IsKVLine(log[i]) /\ SectionAt(log, i, IsDesktopEntryHeader)

IsTypeApplication(raw) == KeyOf(raw) = W_Type /\ ValOf(raw) = W_Application
IsTypeOther(raw) == KeyOf(raw) = W_Type /\ ValOf(raw) # W_Application

\* The value of the last line with that key among the lines In(log, i), or
\* the empty string.
FinalValue(log, key, In(_, _)) ==
  LET S == {i \in 1..Len(log) : In(log, i) /\ KeyOf(log[i]) = key}
  IN  IF S = {} THEN <<>>
      ELSE ValOf(log[CHOOSE i \in S : \A j \in S : j <= i])

LineRead == pc = "parse" /\ deLog' # deLog
LastRead == Len(deLog')

(***************************************************************************)
(* C3.  In parse_desktop_file a key=value line affects the resulting entry *)
(* only while the most recent header line names exactly the section        *)
(* "Desktop Entry"; after any other header line, key=value lines change    *)
(* neither the entry nor the outcome of the parse.                         *)
(***************************************************************************)
C3_Step ==
  (LineRead /\ IsKVLine(deLog'[LastRead]) /\ ~InDesktopEntry(deLog', LastRead))
    => parse' = parse

C3_OnlyInDesktopEntrySection == [][C3_Step]_vars

(***************************************************************************)
(* C4.  parse_desktop_file returns 1 with valid = 1 if and only if a       *)
(* Type=Application line was seen inside the Desktop Entry section and the *)
(* final Name and the final Exec are non-empty, for any order and          *)
(* repetition of the lines.  The section is taken as the parser delimits   *)
(* it, so that the statement is judged on the lines the parser processes.  *)
(***************************************************************************)
ReturnsValid == parse.ret = 1 /\ parse.entry.valid = 1
ReturnsInvalid == parse.ret = 0 /\ parse.entry.valid = 0

C5_Step ==
  (LineRead /\ InDesktopEntry(deLog', LastRead) /\ IsTypeOther(deLog'[LastRead]))
    => /\ pc' = "parsed"
       /\ parse'.returned /\ parse'.ret = 0 /\ parse'.entry.valid = 0

C5_Final ==
  pc = "parsed" =>
    \A i \in 1..Len(deLog) :
      (InDesktopEntry(deLog, i) /\ IsTypeOther(deLog[i]))
        => i = Len(deLog) /\ ReturnsInvalid

C5_Returned == pc = "parsed" => (parse' = parse /\ deLog' = deLog)

C5_TypeGate == []C5_Final /\ [][C5_Step /\ C5_Returned]_vars

\* Type=Link was read after Name, Exec and Type=Application, and the parse failed.
C5_Witness ==
  /\ pc = "parsed"
  /\ Len(deLog) = 5
  /\ deLog[4] = L_TypeApplication /\ deLog[5] = L_TypeLink
  /\ parse.entry.name = W_firefox /\ parse.entry.exec = W_ffcmd
  /\ ReturnsInvalid

\* The lines of the history that the loader met in section sec as key=value
\* lines while fewer than cap rules of that kind were stored.
IsRuleLine(e, sec) == e.section = sec /\ e.n = 2
StoredDirLine(e) == IsRuleLine(e, W_dirs) /\ e.dirs < MAX_CFG_DIRS
StoredAppLine(e) == IsRuleLine(e, W_apps) /\ e.apps < MAX_CFG_APPS
DroppedAppLine(e) == IsRuleLine(e, W_apps) /\ e.apps >= MAX_CFG_APPS
LogEntries == {cfgLog[i] : i \in 1..Len(cfgLog)}

(***************************************************************************)
(* C2.  After config_load, every path=value line of the [dirs] section     *)
(* (within capacity) is stored as a DirRule whose allow is true unless the *)
(* value is exactly "block"; config_dir_allowed(path) is false when the    *)
(* first rule for that path has the value "block", true when it has any    *)
(* other value, and false when no rule has that path.                      *)
(***************************************************************************)
C2_DirAllowUnlessBlock ==
  pc = "loaded" =>
    LET dl == SelectSeq(cfgLog, StoredDirLine)
    IN  /\ dir_count(cfg) = Len(dl)
        /\ \A i \in 1..Len(dl) :
             /\ cfg.dirs[i].path = dl[i].key
             /\ (cfg.dirs[i].allow # 0) <=> (dl[i].val # W_block)
        /\ \A path \in {W_etc, W_opt, W_firefox, BulkPath(1)} :
             (config_dir_allowed(cfg, path) # 0) <=>
               \E i \in 1..Len(dl) :
                 /\ dl[i].key = path
                 /\ \A j \in 1..(i - 1) : dl[j].key # path
                 /\ dl[i].val # W_block

(***************************************************************************)
(* C10.  At every point of config_load app_count <= MAX_CFG_APPS and       *)
(* dir_count <= MAX_CFG_DIRS.  Once a category is full, a further rule     *)
(* line of that category leaves the Config as it is; a [general] key and a *)
(* rule line of the other category are still applied; the rules already    *)
(* stored never change; and config_find_app returns NULL for a name that   *)
(* only dropped lines define.                                              *)
(***************************************************************************)
C10_Counts ==
  app_count(cfg) <= MAX_CFG_APPS /\ dir_count(cfg) <= MAX_CFG_DIRS

C10_Line ==
  (pc = "load" /\ cfgLog' # cfgLog) =>
    LET kv == cfgLog'[Len(cfgLog')]
        full == app_count(cfg) = MAX_CFG_APPS \/ dir_count(cfg) = MAX_CFG_DIRS
    IN  /\ (section = W_apps /\ kv.n = 2 /\ app_count(cfg) = MAX_CFG_APPS)
             => cfg' = cfg
        /\ (section = W_dirs /\ kv.n = 2 /\ dir_count(cfg) = MAX_CFG_DIRS)
             => cfg' = cfg
        /\ (full /\ section = W_general /\ kv.n = 2 /\ kv.key = W_delay)
             => cfg'.delay_ms = atoi(kv.val)
        /\ (full /\ section = W_general /\ kv.n = 2 /\ kv.key = W_startup_delay)
             => cfg'.startup_delay_ms = atoi(kv.val)
        /\ (full /\ section = W_apps /\ kv.n = 2 /\ app_count(cfg) < MAX_CFG_APPS)
             => /\ app_count(cfg') = app_count(cfg) + 1
                /\ cfg'.apps[app_count(cfg')].name = kv.key
        /\ (full /\ section = W_dirs /\ kv.n = 2 /\ dir_count(cfg) < MAX_CFG_DIRS)
             => /\ dir_count(cfg') = dir_count(cfg) + 1
                /\ cfg'.dirs[dir_count(cfg')].path = kv.key
        /\ SubSeq(cfg'.apps, 1, app_count(cfg)) = cfg.apps
        /\ SubSeq(cfg'.dirs, 1, dir_count(cfg)) = cfg.dirs

C10_DroppedAbsent ==
  \A e \in LogEntries :
    (/\ DroppedAppLine(e)
     /\ \A f \in LogEntries :
          StoredAppLine(f) => f.key # e.key)
      => config_find_app(cfg, e.key) = NULL

C10_Capacity == [](C10_Counts /\ C10_DroppedAbsent) /\ [][C10_Line]_vars

\* apps[] is full, an [apps] line for firefox was dropped, and a [dirs] line
\* read after it was stored.
C10_Witness ==
  /\ pc = "loaded"
  /\ app_count(cfg) = MAX_CFG_APPS
  /\ dir_count(cfg) = 1
  /\ \E e \in LogEntries : DroppedAppLine(e) /\ e.key = W_firefox
  /\ config_find_app(cfg, W_firefox) = NULL

(***************************************************************************)
(* C9.  For every command string, remove_desktop_specifiers returns the    *)
(* input with each % and the single character after it removed (whatever   *)
(* that character is), a trailing lone % removed, and every other          *)
(* character copied in order; the two commands of the specification give   *)
(* the results it names.                                                   *)
(***************************************************************************)
\* consumed[i]: character i is the one that follows a marker.
Consumed(s) ==
  LET c[i \in 0..Len(s)] ==
        IF i <= 1 THEN FALSE ELSE s[i - 1] = "%" /\ ~c[i - 1]
  IN  c

\* The characters of s that are neither a marker nor the one after a marker.
RECURSIVE KeepFrom(_, _)
KeepFrom(s, i) ==
  IF i > Len(s) THEN <<>>
  ELSE IF Consumed(s)[i] \/ s[i] = "%" THEN KeepFrom(s, i + 1)
  ELSE <<s[i]>> \o KeepFrom(s, i + 1)

C9_Sanitized ==
  pc = "sanitized" =>
    /\ CStr(san.buf) = KeepFrom(sanIn, 1)
    /\ remove_desktop_specifiers(sanIn) = CStr(san.buf)
    /\ sanIn = CmdFirefox => CStr(san.buf) = CmdFirefoxClean
    /\ sanIn = CmdTrailing => CStr(san.buf) = CmdTrailingClean

\* A command with a doubled marker and a trailing marker has been sanitized.
C9_Witness ==
  /\ pc = "sanitized"
  /\ sanIn = <<"%", "%", "u", "%">>
  /\ CStr(san.buf) = <<"u">>

(***************************************************************************)
(* autostart.c: the launch queue, the scanner and the launch sequencer.    *)
(***************************************************************************)
MAX_PATH == 2048
QueueInitSize == 5     \* app_queue_init: int size = 5
AutostartDirCount == 3 \* main: the three autostart_dirs_add calls

\* The directory the launcher runs in, which a child inherits.
LauncherCwd == <<".">>

app_queue_init == [apps |-> <<>>, capacity |-> QueueInitSize]

\* A buggy variant: a full array is not grown and the entry is dropped.
app_queue_add_fixed_cap(a, entry) ==
  IF Len(a.apps) = a.capacity THEN a
  ELSE [apps |-> Append(a.apps, entry), capacity |-> a.capacity]

\* app_queue_add: double the capacity when the array is full, then store.
app_queue_add(a, entry) ==
  [apps |-> Append(a.apps, entry),
   capacity |-> IF Len(a.apps) = a.capacity THEN a.capacity * 2 ELSE a.capacity]

\* scan_autostart_dir lines 317-323: allow of the first rule named like the
\* entry, 1 when there is none.
ScanAllowed(c, name) ==
  LET S == {i \in 1..app_count(c) : c.apps[i].name = name}
  IN  IF S = {} THEN 1 ELSE c.apps[CHOOSE i \in S : \A j \in S : i <= j].allow

\* check_tryexec: an empty TryExec passes; otherwise the result of the
\* "command -v" probe, which is found or not.
check_tryexec(tryexec, found) ==
  IF Len(tryexec) = 0 THEN 1 ELSE BoolInt(found)

\* A buggy variant: the stack entry is trusted whatever the parser returned.
ScanOutcomeIgnoresReturn(c, ret, d, found) ==
  IF d.valid = 0 THEN "invalid"
  ELSE IF d.hidden # 0 \/ d.nodisplay # 0 THEN "hidden"
  ELSE IF ScanAllowed(c, d.name) = 0 THEN "disallowed"
  ELSE IF check_tryexec(d.tryexec, found) = 0 THEN "tryexec"
  ELSE "queued"

\* A buggy variant: only Hidden is tested.
ScanOutcomeIgnoresNoDisplay(c, ret, d, found) ==
  IF ~(ret # 0 /\ d.valid # 0) THEN "invalid"
  ELSE IF d.hidden # 0 THEN "hidden"
  ELSE IF ScanAllowed(c, d.name) = 0 THEN "disallowed"
  ELSE IF check_tryexec(d.tryexec, found) = 0 THEN "tryexec"
  ELSE "queued"

\* A buggy variant: the TryExec probe runs before the policy lookup.
ScanOutcomeProbesFirst(c, ret, d, found) ==
  IF ~(ret # 0 /\ d.valid # 0) THEN "invalid"
  ELSE IF d.hidden # 0 \/ d.nodisplay # 0 THEN "hidden"
  ELSE IF check_tryexec(d.tryexec, found) = 0 THEN "tryexec"
  ELSE IF ScanAllowed(c, d.name) = 0 THEN "disallowed_after_probe"
  ELSE "queued"

\* scan_autostart_dir lines 310-338: what becomes of a .desktop file whose
\* parse returned ret and left the entry d.
ScanOutcome(c, ret, d, found) ==
  IF ~(ret # 0 /\ d.valid # 0) THEN "invalid"
  ELSE IF d.hidden # 0 \/ d.nodisplay # 0 THEN "hidden"
  ELSE IF ScanAllowed(c, d.name) = 0 THEN "disallowed"
  ELSE IF check_tryexec(d.tryexec, found) = 0 THEN "tryexec"
  ELSE "queued"

\* Was the "command -v" probe of check_tryexec run on the way to the outcome?
ProbeRan(outcome, d) ==
  outcome \in {"tryexec", "disallowed_after_probe", "queued"} /\ Len(d.tryexec) > 0

\* scan_autostart_dir lines 298-301: the name ends in the extension ".desktop".
W_dotdesktop == <<".","d","e","s","k","t","o","p">>
HasDesktopExt(d_name) ==
  LET dots == {i \in 1..Len(d_name) : d_name[i] = "."}
  IN  /\ dots # {}
      /\ SubSeq(d_name, CHOOSE i \in dots : \A j \in dots : j <= i, Len(d_name))
           = W_dotdesktop

\* A buggy variant: the first entry waits the inter-item delay too.
LaunchDelayInterItemOnly(c, i) == c.delay_ms

\* launch_queued_apps line 369: the delay before the entry at index i.
LaunchDelay(c, i) == IF i # 0 THEN c.delay_ms ELSE c.startup_delay_ms

\* A buggy variant: every iteration runs the head of the queue.
QueueAtFirst(a, i) == a.apps[1]

\* launch_queued_apps line 375: the element of the queue iteration i runs.
QueueAt(a, i) == a.apps[i + 1]

\* A buggy variant: every run_command is counted as a success.
TallyAlways(count, ret) == count + 1

\* launch_queued_apps lines 375-381: success_count after a run_command that
\* returned ret.
Tally(count, ret) == IF ret # 0 THEN count + 1 ELSE count

\* A buggy variant: the loop ends at the first run_command that fails.
AfterRunStopsOnFailure(i, n, ret) ==
  IF ret = 0 THEN "report" ELSE IF i < n THEN "sleep" ELSE "report"

\* launch_queued_apps line 368: where the loop goes after iteration i - 1 of
\* n, whose run_command returned ret.
AfterRun(i, n, ret) == IF i < n THEN "sleep" ELSE "report"

\* A buggy variant: a failed load leaves the Config zeroed.
config_load_unopened_zeroes(c) == [c EXCEPT !.delay_ms = 0]

\* config.c lines 26-28: fopen fails; -1 is returned and cfg is not written.
config_load_unopened(c) == c

(***************************************************************************)
(* The inputs of a run: the policy file, the directory entries and the     *)
(* entry files.                                                            *)
(***************************************************************************)
P_Deny == <<Header(W_apps), KeyVal(W_firefox, W_allowc \o <<"0">>)>>
P_Delay ==
  <<Header(W_general), KeyVal(W_delay, <<"5","0">>), Header(W_apps),
    KeyVal(W_firefox, W_allowc \o <<"1",",">> \o W_delayc \o <<"5","0","0">>)>>
P_DenyThenAllow ==
  <<Header(W_apps), KeyVal(W_firefox, W_allowc \o <<"0">>),
    KeyVal(W_firefox, W_allowc \o <<"1">>)>>
P_Startup == <<Header(W_general), KeyVal(W_startup_delay, <<"3","0">>)>>
PolicyFiles == {P_Deny, P_Delay, P_DenyThenAllow, P_Startup}

L_NameVlc == KeyVal(W_Name, W_vlc)
L_ExecVlc == KeyVal(W_Exec, W_vlc)
L_TryExecFf == KeyVal(W_TryExec, <<"f","f">>)
L_PathOpt == KeyVal(W_Path, W_opt)
L_NoDisplayTrue == KeyVal(W_NoDisplay, W_true)

F_Firefox ==
  <<L_DesktopEntry, L_TypeApplication, L_NameFirefox, L_ExecFirefox, L_TryExecFf>>
F_Vlc == <<L_DesktopEntry, L_TypeApplication, L_NameVlc, L_ExecVlc, L_PathOpt>>
F_Hidden == F_Firefox \o <<L_HiddenTrue>>
F_NoDisplay == F_Vlc \o <<L_NoDisplayTrue>>
F_Link == <<L_DesktopEntry, L_NameVlc, L_ExecVlc, L_TypeLink>>
F_NoExec == <<L_DesktopEntry, L_TypeApplication, L_NameVlc>>

Readable(lines) == [readable |-> TRUE, lines |-> lines]
Unreadable == [readable |-> FALSE, lines |-> <<>>]
DesktopFiles ==
  {Readable(F_Firefox), Readable(F_Vlc), Readable(F_Hidden),
   Readable(F_NoDisplay), Readable(F_Link), Readable(F_NoExec), Unreadable}

\* parse_desktop_file on each readable file of the corpus, and config_load
\* on each policy file.
ParsedFile ==
  [f \in {g \in DesktopFiles : g.readable} |-> parse_desktop_file(f.lines)]
LoadedPolicy == [f \in PolicyFiles |-> config_load(config_init, f)]

\* run_command lines 232-237: the command copied into cmd[MAX_PATH] and
\* sanitized.  The result for the Exec values of the entry files above is
\* computed once.
ExecValues ==
  {ParsedFile[f].entry.exec : f \in {g \in DesktopFiles : g.readable}}
SanitizedExec ==
  [c \in ExecValues |-> remove_desktop_specifiers(Take(c, MAX_PATH - 1))]
SanitizedCopy(exec_cmd) ==
  IF exec_cmd \in ExecValues THEN SanitizedExec[exec_cmd]
  ELSE remove_desktop_specifiers(Take(exec_cmd, MAX_PATH - 1))

\* A buggy variant: run_command waits for the child before it returns.
run_command_waits(exec_cmd, work_dir, forkOk) ==
  IF exec_cmd = <<>>
  THEN [ret |-> 0, forked |-> FALSE, cmd |-> <<>>, work_dir |-> work_dir,
        child |-> "none"]
  ELSE [ret |-> BoolInt(forkOk), forked |-> forkOk,
        cmd |-> SanitizedCopy(exec_cmd),
        work_dir |-> work_dir,
        child |-> IF forkOk THEN "exited" ELSE "none"]

\* run_command: 0 without a fork for an empty command; otherwise the command
\* is copied, sanitized and a child forked, and the result is pid > 0.
\* child is the state of the child process at the moment of the return:
\* "forked" (created, nothing more) or "none".
run_command(exec_cmd, work_dir, forkOk) ==
  IF exec_cmd = <<>>
  THEN [ret |-> 0, forked |-> FALSE, cmd |-> <<>>, work_dir |-> work_dir,
        child |-> "none"]
  ELSE [ret |-> BoolInt(forkOk), forked |-> forkOk,
        cmd |-> SanitizedCopy(exec_cmd),
        work_dir |-> work_dir,
        child |-> IF forkOk THEN "forked" ELSE "none"]

N_ffdesktop == <<"f","f">> \o W_dotdesktop
N_notes == <<"n","o","t","e","s",".","t","x","t">>
N_desktop == <<"d","e","s","k","t","o","p">>
DirNames == {N_ffdesktop, N_notes, N_desktop}

\* What an uninitialized struct DesktopEntry on the stack may hold.
StaleEntry ==
  [ZeroEntry EXCEPT !.name = W_vlc, !.exec = W_vlc, !.valid = 1]

Init ==
  /\ pc = "main"
  /\ SanIdle /\ CfgIdle /\ ParseIdle
  /\ app_queue = [apps |-> <<>>, capacity |-> 0]
  /\ cfgRet = "none" /\ dirIdx = 0 /\ nread = 0
  /\ de \in {ZeroEntry, StaleEntry}
  /\ total_found = 0 /\ queued = 0 /\ scanLog = <<>> /\ added = <<>>
  /\ li = 0 /\ success_count = 0 /\ slept = <<>> /\ launches = <<>> /\ children = <<>>
  /\ ThrIdle

MainFrame ==
  UNCHANGED <<sanVars, section, cfgPre, cfgTail, cfgLog, parseVars, thrVars>>

\* main lines 444-450 with the policy loaded as load says.
MainStart(c, ret) ==
  /\ pc = "main"
  /\ cfg' = c
  /\ cfgRet' = ret
  /\ app_queue' = app_queue_init
  /\ pc' = "opendir"
  /\ UNCHANGED <<dirIdx, nread, de, total_found, queued, scanLog, added, li,
                 success_count, slept, launches, children>>
  /\ MainFrame

\* argc <= 1: config_load is not called.
MainNoPolicy == MainStart(config_init, "none")

\* config_load cannot open the file and returns -1.
MainLoadFail == MainStart(config_load_unopened(config_init), "fail")

\* config_load reads a policy file and returns 0.
MainLoad == \E f \in PolicyFiles : MainStart(LoadedPolicy[f], "ok")

AfterDir(d) == IF d = AutostartDirCount THEN "launch" ELSE "opendir"

\* scan_autostart_dir: opendir fails, return 0.
ScanDirMissing ==
  /\ pc = "opendir"
  /\ dirIdx' = dirIdx + 1
  /\ pc' = AfterDir(dirIdx')
  /\ UNCHANGED <<cfg, app_queue, cfgRet, nread, de, total_found, queued,
                 scanLog, added, li, success_count, slept, launches, children>>
  /\ MainFrame

\* scan_autostart_dir: opendir succeeds.
ScanDirOpen ==
  /\ pc = "opendir"
  /\ total_found' = 0
  /\ queued' = 0
  /\ pc' = "readdir"
  /\ UNCHANGED <<cfg, app_queue, cfgRet, dirIdx, nread, de, scanLog, added, li,
                 success_count, slept, launches, children>>
  /\ MainFrame

\* readdir returns a name without the .desktop extension: continue.
ScanSkipName ==
  /\ pc = "readdir"
  /\ nread < MaxDirEntries
  /\ \E d_name \in DirNames : ~HasDesktopExt(d_name)
  /\ nread' = nread + 1
  /\ UNCHANGED <<pc, cfg, app_queue, cfgRet, dirIdx, de, total_found, queued,
                 scanLog, added, li, success_count, slept, launches, children>>
  /\ MainFrame

\* readdir returns a .desktop file: parse it, filter it, queue it.
ScanFile ==
  /\ pc = "readdir"
  /\ nread < MaxDirEntries
  /\ \E d_name \in DirNames, f \in DesktopFiles, found \in BOOLEAN :
       LET p == IF f.readable THEN ParsedFile[f]
                ELSE [ret |-> 0, entry |-> de]
           outcome == ScanOutcome(cfg, p.ret, p.entry, found)
       IN  /\ HasDesktopExt(d_name)
           /\ de' = p.entry
           /\ app_queue' = IF outcome = "queued"
                           THEN app_queue_add(app_queue, p.entry) ELSE app_queue
           /\ added' = IF outcome = "queued"
                       THEN Append(added, p.entry) ELSE added
           /\ scanLog' = Append(scanLog,
                [file |-> f, ret |-> p.ret, entry |-> p.entry,
                 outcome |-> outcome, probed |-> ProbeRan(outcome, p.entry),
                 dir |-> dirIdx])
  /\ nread' = nread + 1
  /\ total_found' = total_found + 1
  /\ UNCHANGED <<pc, cfg, cfgRet, dirIdx, queued, li, success_count, slept,
                 launches, children>>
  /\ MainFrame

\* readdir returns NULL: closedir, print the summary, return queued.
ScanDirEnd ==
  /\ pc = "readdir"
  /\ dirIdx' = dirIdx + 1
  /\ pc' = AfterDir(dirIdx')
  /\ UNCHANGED <<cfg, app_queue, cfgRet, nread, de, total_found, queued,
                 scanLog, added, li, success_count, slept, launches, children>>
  /\ MainFrame

\* launch_queued_apps with an empty queue: return at once; main cleans up.
LaunchNone ==
  /\ pc = "launch"
  /\ Len(app_queue.apps) = 0
  /\ pc' = "done"
  /\ UNCHANGED <<cfg, mainVars>>
  /\ MainFrame

\* launch_queued_apps: enter the loop.
LaunchBegin ==
  /\ pc = "launch"
  /\ Len(app_queue.apps) # 0
  /\ li' = 0
  /\ success_count' = 0
  /\ pc' = "sleep"
  /\ UNCHANGED <<cfg, app_queue, cfgRet, dirIdx, nread, de, total_found,
                 queued, scanLog, added, slept, launches, children>>
  /\ MainFrame

\* Lines 369-373: compute the delay and sleep.
LaunchSleep ==
  /\ pc = "sleep"
  /\ slept' = Append(slept, LaunchDelay(cfg, li))
  /\ pc' = "run"
  /\ UNCHANGED <<cfg, app_queue, cfgRet, dirIdx, nread, de, total_found,
                 queued, scanLog, added, li, success_count, launches, children>>
  /\ MainFrame

\* Lines 375-384: run_command on the entry, count a success, next entry.
LaunchRun ==
  /\ pc = "run"
  /\ \E forkOk \in BOOLEAN :
       LET e == QueueAt(app_queue, li)
           r == run_command(e.exec, e.path, forkOk)
       IN  /\ launches' = Append(launches,
                 [index |-> li, name |-> e.name, ret |-> r.ret,
                  forked |-> r.forked, cmd |-> r.cmd, work_dir |-> r.work_dir])
           /\ children' = IF r.forked
                          THEN Append(children,
                                 [index |-> li, cmd |-> r.cmd,
                                  work_dir |-> r.work_dir, state |-> r.child,
                                  cwd |-> LauncherCwd])
                          ELSE children
           /\ success_count' = Tally(success_count, r.ret)
           /\ pc' = AfterRun(li + 1, Len(app_queue.apps), r.ret)
  /\ li' = li + 1
  /\ UNCHANGED <<cfg, app_queue, cfgRet, dirIdx, nread, de, total_found,
                 queued, scanLog, added, slept>>
  /\ MainFrame

\* Lines 386-391: print the totals; main cleans up and returns.
LaunchReport ==
  /\ pc = "report"
  /\ pc' = "done"
  /\ UNCHANGED <<cfg, mainVars>>
  /\ MainFrame

Next ==
  \/ MainNoPolicy \/ MainLoadFail \/ MainLoad
  \/ ScanDirMissing \/ ScanDirOpen \/ ScanSkipName \/ ScanFile \/ ScanDirEnd
  \/ LaunchNone \/ LaunchBegin \/ LaunchSleep \/ LaunchRun \/ LaunchReport

Spec == Init /\ [][Next]_vars

(***************************************************************************)
(* launch_queued_apps with the children it forks.  The run starts where    *)
(* main calls launch_queued_apps, on a queue of at most MaxQueueLen        *)
(* entries built by app_queue_add.  The sequencer is one sequential        *)
(* process: each of its steps (a finite nanosleep, a fork, a printf) ends, *)
(* so its steps are weakly fair.  Nothing is assumed of the children.      *)
(***************************************************************************)
QueueEntries ==
  {ParsedFile[Readable(F_Firefox)].entry, ParsedFile[Readable(F_Vlc)].entry}

RECURSIVE QueueOf(_)
QueueOf(es) ==
  IF es = <<>> THEN app_queue_init
  ELSE app_queue_add(QueueOf(SubSeq(es, 1, Len(es) - 1)), es[Len(es)])

LaunchQueues == {QueueOf(es) : es \in SeqsUpTo(QueueEntries, MaxQueueLen)}

LaunchInit ==
  /\ pc = "launch"
  /\ SanIdle /\ ParseIdle
  /\ cfg = config_init
  /\ section = <<>> /\ cfgPre = <<>> /\ cfgTail = 0 /\ cfgLog = <<>>
  /\ app_queue \in LaunchQueues
  /\ cfgRet = "none" /\ dirIdx = AutostartDirCount /\ nread = 0
  /\ de = ZeroEntry
  /\ total_found = 0 /\ queued = 0 /\ scanLog = <<>>
  /\ added = app_queue.apps
  /\ li = 0 /\ success_count = 0 /\ slept = <<>> /\ launches = <<>>
  /\ children = <<>>
  /\ ThrIdle

ChildFrame ==
  /\ UNCHANGED <<pc, cfg, app_queue, cfgRet, dirIdx, nread, de, total_found,
                 queued, scanLog, added, li, success_count, slept, launches>>
  /\ MainFrame

\* run_command lines 246-252, in the child: chdir to a non-empty work_dir;
\* when it fails the error is printed and the child goes on where it is.
ChildCwd(work_dir, chdirOk) ==
  IF work_dir # <<>> /\ chdirOk THEN work_dir ELSE LauncherCwd

\* run_command lines 237-263, in the child: setsid, chdir, close the
\* standard streams, exec the shell on the command.
ChildExec ==
  /\ \E k \in 1..Len(children), chdirOk \in BOOLEAN :
       /\ children[k].state = "forked"
       /\ children' = [children EXCEPT
                         ![k].state = "running",
                         ![k].cwd = ChildCwd(children[k].work_dir, chdirOk)]
  /\ ChildFrame

\* run_command lines 262-266, in the child: both execlp calls fail, _exit.
ChildExecFail ==
  /\ \E k \in 1..Len(children) :
       /\ children[k].state = "forked"
       /\ children' = [children EXCEPT ![k].state = "execfailed"]
  /\ ChildFrame

\* The command a child runs ends.
ChildExit ==
  /\ \E k \in 1..Len(children) :
       /\ children[k].state = "running"
       /\ children' = [children EXCEPT ![k].state = "exited"]
  /\ ChildFrame

LauncherStep ==
  LaunchNone \/ LaunchBegin \/ LaunchSleep \/ LaunchRun \/ LaunchReport

LaunchNext == LauncherStep \/ ChildExec \/ ChildExecFail \/ ChildExit

SpecLaunch == LaunchInit /\ [][LaunchNext]_vars /\ WF_vars(LauncherStep)

ScanRecords == {scanLog[k] : k \in 1..Len(scanLog)}
IsQueued(rec) == rec.outcome = "queued"

\* The entries of the records the scanner queued, in order.
QueuedEntries ==
  LET q == SelectSeq(scanLog, IsQueued)
  IN  [k \in 1..Len(q) |-> q[k].entry]

\* The entry file format as C4 (amended) words it, on a whole file.
FileIsValid(lines) ==
  /\ \E i \in 1..Len(lines) :
       InGatedSection(lines, i) /\ IsTypeApplication(lines[i])
  /\ \A i \in 1..Len(lines) :
       ~(InGatedSection(lines, i) /\ IsTypeOther(lines[i]))
  /\ FinalValue(lines, W_Name, InGatedSection) # <<>>
  /\ FinalValue(lines, W_Exec, InGatedSection) # <<>>

ValidFiles == {f \in DesktopFiles : f.readable /\ FileIsValid(f.lines)}

(***************************************************************************)
(* C1.  For every queued entry, at every index including 0, whose name has *)
(* an AppRule with a delay override that is present and non-negative, the  *)
(* delay slept before launching it equals that override, whatever the      *)
(* startup delay and the inter-item delay are.                             *)
(***************************************************************************)
C1_DelayOverride ==
  \A k \in 1..Len(slept) :
    LET rule == config_find_app(cfg, app_queue.apps[k].name)
    IN  (rule # NULL /\ rule.delay_ms >= 0) => slept[k] = rule.delay_ms

(***************************************************************************)
(* C6.  In every state of the scan, every entry in the launch queue has    *)
(* valid = 1, comes from a file with a Type=Application line and non-empty *)
(* Name and Exec, and the queue holds exactly the entries the scanner      *)
(* accepted; an entry whose parse returned 0, also because the file could  *)
(* not be opened, is never appended.                                       *)
(***************************************************************************)
C6_OnlyValidQueued ==
  /\ app_queue.apps = QueuedEntries
  /\ \A k \in 1..Len(app_queue.apps) :
       LET e == app_queue.apps[k]
       IN  e.valid = 1 /\ e.name # <<>> /\ e.exec # <<>>
  /\ \A rec \in ScanRecords :
       /\ IsQueued(rec) =>
            /\ rec.file \in ValidFiles
            /\ rec.ret = 1 /\ rec.entry.valid = 1
       /\ (rec.ret = 0 \/ ~rec.file.readable) => ~IsQueued(rec)

\* An unreadable file was met while the stack entry still held a valid
\* entry, and it was skipped; another entry is queued.
C6_Witness ==
  /\ \E rec \in ScanRecords :
       ~rec.file.readable /\ rec.entry.valid = 1 /\ rec.outcome = "invalid"
  /\ Len(app_queue.apps) = 1

(***************************************************************************)
(* C7.  An entry whose Hidden or NoDisplay flag is true is never appended  *)
(* to the launch queue, whatever the policy says (also with an AppRule     *)
(* that allows its name) and whatever its TryExec is.                      *)
(***************************************************************************)
C7_HiddenNeverQueued ==
  /\ app_queue.apps = QueuedEntries
  /\ \A rec \in ScanRecords :
       (rec.entry.hidden # 0 \/ rec.entry.nodisplay # 0) => ~IsQueued(rec)
  /\ \A k \in 1..Len(app_queue.apps) :
       app_queue.apps[k].hidden = 0 /\ app_queue.apps[k].nodisplay = 0

\* A hidden firefox entry with a TryExec was skipped under a policy whose
\* rule allows firefox, and a NoDisplay entry was skipped too.
C7_Witness ==
  /\ \E rec \in ScanRecords :
       /\ rec.ret = 1 /\ rec.entry.hidden = 1 /\ rec.entry.tryexec # <<>>
       /\ config_find_app(cfg, rec.entry.name) # NULL
       /\ config_find_app(cfg, rec.entry.name).allow # 0
       /\ rec.outcome = "hidden"
  /\ \E rec \in ScanRecords :
       rec.ret = 1 /\ rec.entry.nodisplay = 1 /\ rec.outcome = "hidden"

(***************************************************************************)
(* C8.  An entry whose Name equals the name of a loaded AppRule with       *)
(* allow = 0, as the rule lookup selects it, is never appended to the      *)
(* launch queue and is rejected before its TryExec probe is run.           *)
(***************************************************************************)
Denied(name) ==
  config_find_app(cfg, name) # NULL /\ config_find_app(cfg, name).allow = 0

C8_DeniedNeverQueued ==
  /\ app_queue.apps = QueuedEntries
  /\ \A rec \in ScanRecords :
       Denied(rec.entry.name) => (~IsQueued(rec) /\ ~rec.probed)
  /\ \A k \in 1..Len(app_queue.apps) : ~Denied(app_queue.apps[k].name)

\* A valid, visible firefox entry with a TryExec was rejected by the policy
\* without a probe.
C8_Witness ==
  \E rec \in ScanRecords :
    /\ rec.ret = 1 /\ rec.entry.name = W_firefox /\ rec.entry.tryexec # <<>>
    /\ rec.entry.hidden = 0 /\ rec.entry.nodisplay = 0
    /\ Denied(rec.entry.name)
    /\ rec.outcome = "disallowed" /\ ~rec.probed


(***************************************************************************)
(* The policy file format as the specification words it, read off the      *)
(* history of lines: a key=value line is a line with an "=" that is        *)
(* neither a header nor a comment, and its section is the bracketed text   *)
(* of the most recent header line.                                         *)
(***************************************************************************)
CfgLineRead == pc = "load" /\ cfgLog' # cfgLog
CfgLast == cfgLog'[Len(cfgLog')]

\* The lines read so far that define an app rule for name.
DefiningLines(name) ==
  {i \in 1..Len(cfgLog) : StoredAppLine(cfgLog[i]) /\ cfgLog[i].key = name}

RulesNamed(c, name) == {i \in 1..app_count(c) : c.apps[i].name = name}

QueryNames ==
  {W_firefox, W_Firefox, W_vlc, W_etc, BulkName(1), BulkName(MAX_CFG_APPS)}

(***************************************************************************)
(* C11.  After config_load the stored app rules hold at most one rule per  *)
(* name, and for a name the file defines more than once the rule that      *)
(* decides allow or deny is the one of the last defining line.             *)
(***************************************************************************)
C11_OneRulePerNameLastWins ==
  pc = "loaded" =>
    \A name \in QueryNames :
      /\ Cardinality(RulesNamed(cfg, name)) <= 1
      /\ LET D == DefiningLines(name)
         IN  Cardinality(D) > 1 =>
               LET last == cfgLog[CHOOSE i \in D : \A j \in D : j <= i]
               IN  (ScanAllowed(cfg, name) # 0)
                     <=> (NewAppRule(last.key, last.val).allow # 0)

(***************************************************************************)
(* C12.  After config_load, config_find_app(name) returns the rule stored  *)
(* by the earliest [apps] line read whose key is exactly name, and NULL    *)
(* when no stored line has that key; the allow the scanner's lookup loop   *)
(* computes for name is the allow of that rule, and 1 when there is none.  *)
(***************************************************************************)
C12_FindAppFirstMatch ==
  pc = "loaded" =>
    \A name \in QueryNames :
      LET D == DefiningLines(name)
          r == config_find_app(cfg, name)
      IN  IF D = {}
          THEN r = NULL /\ ScanAllowed(cfg, name) = 1
          ELSE LET e == cfgLog[CHOOSE i \in D : \A j \in D : i <= j]
               IN  /\ r # NULL
                   /\ r = cfg.apps[e.apps + 1]
                   /\ r.name = name
                   /\ r = NewAppRule(e.key, e.val)
                   /\ ScanAllowed(cfg, name) = r.allow

\* A rule named Firefox that denies is stored before a rule named firefox
\* that allows; each name finds its own rule.
C12_Witness ==
  /\ pc = "loaded"
  /\ app_count(cfg) = 2
  /\ cfg.apps[1].name = W_Firefox /\ cfg.apps[1].allow = 0
  /\ cfg.apps[2].name = W_firefox /\ cfg.apps[2].allow = 1
  /\ config_find_app(cfg, W_firefox) = cfg.apps[2]
  /\ ScanAllowed(cfg, W_firefox) = 1
  /\ config_find_app(cfg, W_vlc) = NULL

(***************************************************************************)
(* C17.  Each key=value line of the [apps] section read while fewer than   *)
(* MAX_CFG_APPS rules are stored adds one AppRule named by the trimmed     *)
(* key; the rule allows unless the last sub-token "allow:N" of the value   *)
(* has N = 0 (a non-numeric N counts as 0), its delay override is the N of *)
(* the last sub-token "delay:N" and -1 without one, and other sub-tokens   *)
(* change nothing.                                                         *)
(***************************************************************************)
\* The pieces of v between its commas.
RECURSIVE SplitOn(_, _)
SplitOn(v, c) ==
  LET i == IndexOf(v, c)
  IN  IF i = 0 THEN <<v>> ELSE <<Take(v, i - 1)>> \o SplitOn(Drop(v, i), c)

\* The integer after the last sub-token of v with the prefix p, or dflt.
LastSubToken(v, p, dflt) ==
  LET toks == SplitOn(v, ",")
      S == {k \in 1..Len(toks) : StartsWith(trim(toks[k]), p)}
  IN  IF S = {} THEN dflt
      ELSE atoi(Drop(trim(toks[CHOOSE k \in S : \A j \in S : j <= k]), Len(p)))

AppsLineRead ==
  /\ CfgLineRead
  /\ CfgLast.header = W_apps
  /\ IsKVLine(CfgLast.raw)
  /\ app_count(cfg) < MAX_CFG_APPS

AppsLineDefinesRule ==
  /\ app_count(cfg') = app_count(cfg) + 1
  /\ LET rule == cfg'.apps[app_count(cfg')]
         v == ValOf(CfgLast.raw)
     IN  /\ rule.name = KeyOf(CfgLast.raw)
         /\ (rule.allow # 0) <=> (LastSubToken(v, W_allowc, 1) # 0)
         /\ rule.delay_ms = LastSubToken(v, W_delayc, -1)

RecognizedSections == {W_general, W_apps, W_dirs}

C18_Step ==
  (/\ CfgLineRead
   /\ IsKVLine(CfgLast.raw)
   /\ CfgLast.header # NoHeader
   /\ CfgLast.header \notin RecognizedSections) => cfg' = cfg

C18_UnknownSectionNoEffect == [][C18_Step]_vars

(***************************************************************************)
(* The life of a queued entry as the specification words it, read off the  *)
(* sequencer's position and the history of run_command calls: Pending,     *)
(* Launching while run_command is being called on it, then Launched or     *)
(* LaunchFailed as the call returned.  Entry k is app_queue.apps[k].       *)
(***************************************************************************)
QueueLen == Len(app_queue.apps)
LaunchesOf(k) == {m \in 1..Len(launches) : launches[m].index = k - 1}

EntryState(k) ==
  IF LaunchesOf(k) # {}
  THEN IF launches[CHOOSE m \in LaunchesOf(k) : TRUE].ret # 0
       THEN "Launched" ELSE "LaunchFailed"
  ELSE IF pc = "run" /\ li = k - 1 THEN "Launching"
  ELSE "Pending"

Terminal(k) == EntryState(k) \in {"Launched", "LaunchFailed"}

(***************************************************************************)
(* C13.  launch_queued_apps runs the queued entries in queue order, each   *)
(* exactly once: the m-th run_command call is on entry m of the queue;     *)
(* while an entry is Launching or before it, every entry ahead of it has   *)
(* reached Launched or LaunchFailed; at most one entry is Launching; at    *)
(* the end every entry is Launched or LaunchFailed; and an entry that      *)
(* reached one of the two keeps it, as the calls recorded never change.    *)
(***************************************************************************)
C13_Order ==
  /\ \A m \in 1..Len(launches) :
       /\ launches[m].index = m - 1
       /\ m <= QueueLen
       /\ launches[m].name = app_queue.apps[m].name
       /\ launches[m].cmd = remove_desktop_specifiers(app_queue.apps[m].exec)
       /\ launches[m].work_dir = app_queue.apps[m].path
  /\ \A k \in 1..QueueLen : Cardinality(LaunchesOf(k)) <= 1
  /\ \A k \in 1..QueueLen :
       EntryState(k) # "Pending" => \A j \in 1..(k - 1) : Terminal(j)
  /\ Cardinality({k \in 1..QueueLen : EntryState(k) = "Launching"}) <= 1
  /\ pc \in {"report", "done"} => \A k \in 1..QueueLen : Terminal(k)

C13_Step ==
  /\ SubSeq(launches', 1, Len(launches)) = launches
  /\ \A k \in 1..QueueLen : Terminal(k) => EntryState(k)' = EntryState(k)
  /\ app_queue' = app_queue

Succeeded == {m \in 1..Len(launches) : launches[m].ret # 0}
Failed == {m \in 1..Len(launches) : launches[m].ret = 0}

C14_CountsSumToN ==
  /\ success_count = Cardinality(Succeeded)
  /\ Cardinality(Succeeded) = Len(children)
  /\ \A m \in 1..Len(launches) : (launches[m].ret # 0) <=> launches[m].forked
  /\ (pc = "report" \/ (pc = "done" /\ QueueLen > 0)) =>
       /\ Len(launches) = QueueLen
       /\ QueueLen - success_count = Cardinality(Failed)
       /\ success_count + Cardinality(Failed) = QueueLen

\* Three entries, reported with one success between two failures.
C14_Witness ==
  /\ pc = "report"
  /\ QueueLen = 3
  /\ launches[1].ret = 0 /\ launches[2].ret # 0 /\ launches[3].ret = 0
  /\ success_count = 1

(***************************************************************************)
(* C15.  Whatever the queue and whichever forks fail, launch_queued_apps   *)
(* eventually ends with every queued entry Launched or LaunchFailed, and   *)
(* after an entry that failed, the next one is eventually run too.         *)
(***************************************************************************)
AllTerminal == \A k \in 1..QueueLen : Terminal(k)

FailedBeforeLast(k) ==
  k < QueueLen /\ EntryState(k) = "LaunchFailed"

C15_FailureNeverAborts ==
  /\ <>(pc = "done" /\ AllTerminal)
  /\ \A k \in 1..MaxQueueLen :
       FailedBeforeLast(k) ~> Terminal(k + 1)

\* The first two forks failed and the third entry was still launched.
C15_Witness ==
  /\ pc = "done"
  /\ QueueLen = 3
  /\ EntryState(1) = "LaunchFailed"
  /\ EntryState(2) = "LaunchFailed"
  /\ EntryState(3) = "Launched"

(***************************************************************************)
(* C19.  The sequencer never waits on a child: when run_command returns,   *)
(* the child it created has only been forked (it has neither run its       *)
(* command nor exited); in every state before the end a step of the        *)
(* sequencer is possible, whatever the children have or have not done;     *)
(* and launch_queued_apps ends even if no child ever takes a step.         *)
(***************************************************************************)
C19_ReturnStep ==
  (launches' # launches /\ launches'[Len(launches')].forked) =>
    /\ Len(children') = Len(children) + 1
    /\ children'[Len(children')].state = "forked"
    /\ SubSeq(children', 1, Len(children)) = children

C19_NeverBlocked == pc # "done" => ENABLED LauncherStep

C19_NeverWaitsOnChild ==
  /\ []C19_NeverBlocked
  /\ [][C19_ReturnStep]_vars
  /\ <>(pc = "done")

\* The sequencer is through with three entries and none of the three
\* children has run its command or exited.
C19_Witness ==
  /\ pc = "done"
  /\ QueueLen = 3
  /\ Len(children) = 3
  /\ \A k \in 1..3 : children[k].state = "forked"

(***************************************************************************)
(* C20.  A child that runs the command of an entry whose Path is non-empty *)
(* runs it with that directory as its working directory; a child of an     *)
(* entry with an empty Path runs it in the directory of the launcher.      *)
(***************************************************************************)
C20_WorkingDirectory ==
  \A k \in 1..Len(children) :
    children[k].state \in {"running", "exited"} =>
      /\ children[k].work_dir # <<>> => children[k].cwd = children[k].work_dir
      /\ children[k].work_dir = <<>> => children[k].cwd = LauncherCwd

(***************************************************************************)
(* C16.  When the policy file cannot be opened, config_load returns its    *)
(* failure value and the Config is as config_init left it: startup delay   *)
(* 0, inter-item delay 200, no app rule, no dir rule.  The run goes on to  *)
(* the scan, and the scanner rejects no entry by policy.                   *)
(***************************************************************************)
C16_LoadFailureKeepsDefaults ==
  cfgRet = "fail" =>
    /\ cfg = config_init
    /\ cfg.startup_delay_ms = 0 /\ cfg.delay_ms = 200
    /\ app_count(cfg) = 0 /\ dir_count(cfg) = 0
    /\ pc # "main"
    /\ \A rec \in ScanRecords : rec.outcome # "disallowed"
    /\ \A k \in 1..Len(slept) : slept[k] = IF k = 1 THEN 0 ELSE 200

\* After a failed load the run ended with firefox, which the policy files of
\* the model deny, queued and launched second after the delay of 200.
C16_Witness ==
  /\ cfgRet = "fail"
  /\ pc = "done"
  /\ Len(launches) = 2
  /\ launches[2].name = W_firefox
  /\ slept = <<0, 200>>

(***************************************************************************)
(* C21.  For every entry launched whose name has no AppRule with a delay   *)
(* override, the delay slept before the entry at index 0 is the configured *)
(* startup delay and the delay slept before every entry at an index i > 0  *)
(* is the configured inter-item delay; when no policy file was given, or   *)
(* it could not be opened, these are 0 and 200 ms.                         *)
(***************************************************************************)
NoDelayOverride(name) ==
  LET rule == config_find_app(cfg, name)
  IN  rule = NULL \/ rule.delay_ms < 0

C21_DelayByIndex ==
  /\ Len(slept) <= Len(app_queue.apps)
  /\ \A k \in 1..Len(slept) :
       NoDelayOverride(app_queue.apps[k].name) =>
         slept[k] = IF k = 1 THEN cfg.startup_delay_ms ELSE cfg.delay_ms
  /\ cfgRet \in {"none", "fail"} =>
       \A k \in 1..Len(slept) : slept[k] = IF k = 1 THEN 0 ELSE 200

\* Under a policy file that sets startup_delay=30 and names no application,
\* two entries were launched: the first after 30 ms, the second after the
\* inter-item delay the file left at 200 ms.
C21_Witness ==
  /\ cfgRet = "ok"
  /\ cfg.startup_delay_ms = 30
  /\ pc = "done"
  /\ Len(launches) = 2
  /\ \A k \in 1..2 : NoDelayOverride(app_queue.apps[k].name)
  /\ slept = <<30, 200>>

(***************************************************************************)
(* The launch queue on its own: app_queue_init, then app_queue_add calls   *)
(* with entries of the corpus, at most MaxAppends of them.                 *)
(***************************************************************************)
QueueInit ==
  /\ pc = "queue_init"
  /\ SanIdle /\ CfgIdle /\ ParseIdle /\ MainIdle

QueueFrame ==
  UNCHANGED <<sanVars, cfgVars, parseVars, cfgRet, dirIdx, nread, de,
              total_found, queued, scanLog, li, success_count, slept,
              launches, children, thrVars>>

\* main line 449: app_queue_init(&app_queue).
QueueCreate ==
  /\ pc = "queue_init"
  /\ app_queue' = app_queue_init
  /\ pc' = "queue"
  /\ UNCHANGED added
  /\ QueueFrame

\* One app_queue_add(&app_queue, entry) call.
QueueAdd ==
  /\ pc = "queue"
  /\ Len(added) < MaxAppends
  /\ \E entry \in QueueEntries :
       /\ app_queue' = app_queue_add(app_queue, entry)
       /\ added' = Append(added, entry)
  /\ UNCHANGED pc
  /\ QueueFrame

QueueNext == QueueCreate \/ QueueAdd

SpecQueue == QueueInit /\ [][QueueNext]_vars

(***************************************************************************)
(* C22.  After app_queue_init and any sequence of app_queue_add calls the  *)
(* queue holds exactly the appended entries in append order, also across   *)
(* a growth of the storage; count <= capacity always holds; the capacity   *)
(* changes only by doubling, and only when count equals capacity; and      *)
(* every call appends its entry: none is rejected because of a fixed cap.  *)
(***************************************************************************)
C22_Holds ==
  pc = "queue" =>
    /\ app_queue.apps = added
    /\ Len(app_queue.apps) <= app_queue.capacity

C22_Step ==
  /\ added' # added =>
       /\ Len(app_queue'.apps) = Len(app_queue.apps) + 1
       /\ app_queue'.apps[Len(app_queue'.apps)] = added'[Len(added')]
       /\ SubSeq(app_queue'.apps, 1, Len(app_queue.apps)) = app_queue.apps
  /\ (pc = "queue" /\ app_queue'.capacity # app_queue.capacity) =>
       /\ Len(app_queue.apps) = app_queue.capacity
       /\ app_queue'.capacity = 2 * app_queue.capacity

C22_QueueGrowsByDoubling == []C22_Holds /\ [][C22_Step]_vars

\* Eleven entries were appended, firefox and vlc among them: the storage
\* grew from 5 to 10 and from 10 to 20 and the queue holds all eleven in
\* the order of the calls.
C22_Witness ==
  /\ pc = "queue"
  /\ Len(added) = 11
  /\ app_queue.capacity = 4 * QueueInitSize
  /\ app_queue.apps = added
  /\ \E i, j \in 1..11 : added[i].name = W_firefox /\ added[j].name = W_vlc

(***************************************************************************)
(* C23.  scan_autostart_dir returns the number of applications it queued   *)
(* from that directory: the value it returns, which is also the "Queued    *)
(* for launch" figure of its summary, equals the number of entries         *)
(* appended to the launch queue during that call.                          *)
(***************************************************************************)
\* The entries the scan of directory d has appended to the queue.
QueuedFrom(d) ==
  Cardinality({k \in 1..Len(scanLog) :
                 scanLog[k].dir = d /\ IsQueued(scanLog[k])})

\* The step on which scan_autostart_dir prints its summary and returns
\* queued.
C23_ReturnStep ==
  (pc = "readdir" /\ dirIdx' = dirIdx + 1) => queued = QueuedFrom(dirIdx)

C23_ReturnsQueuedCount == [][C23_ReturnStep]_vars

(***************************************************************************)
(* src/autostart.c: the threaded launcher.  launch_queued_apps starts one  *)
(* thread per queued entry; thread i sleeps i * DELAY_MS and then calls    *)
(* run_command.  The main thread sleeps 10 ms after each thread it has     *)
(* started and one second after the loop, detaches, and returns to main,   *)
(* which returns: the process ends and with it every thread still asleep.  *)
(*                                                                         *)
(* now is the time the main thread has spent in launch_queued_apps.  Each  *)
(* sleep lasts what was asked for; the time the main thread may lose       *)
(* besides is drawn from Lateness when sleep(1) returns.  A thread calls   *)
(* run_command at any point after its own sleep has ended, in any order    *)
(* with the steps of the main thread.                                      *)
(***************************************************************************)
MAX_APPS == 100
DELAY_MS == 200
CreateGapMs == 10      \* line 414: tv_nsec = 10000000L
StartGraceMs == 1000   \* line 419: sleep(1)

Lateness == {0, MaxThreads * DELAY_MS}

\* What a slot of threads[] holds before pthread_create has stored into it.
Uninit == -1
NoThread == 0

\* The handle pthread_create stores for the thread started at index i.
TidOf(i) == i + 1

\* launch_app_thread line 290.
ThreadDelay(thread_num) == thread_num * DELAY_MS

\* The values a read of threads[i] can produce: the handle stored there, or,
\* for a slot never written, whatever the stack held: no thread's handle or
\* the handle of some thread.
HandleRead(slot) ==
  IF slot = Uninit
  THEN {NoThread} \cup {thr[k].tid : k \in 1..Len(thr)}
  ELSE {slot}

\* The queue the scan left: n entries, firefox and vlc in turn.
ThreadedQueue(n) ==
  [apps |-> [k \in 1..n |->
               IF k % 2 = 1 THEN ParsedFile[Readable(F_Firefox)].entry
               ELSE ParsedFile[Readable(F_Vlc)].entry],
   capacity |-> MAX_APPS]

ThrInit ==
  /\ pc = "t_launch"
  /\ SanIdle /\ CfgIdle /\ ParseIdle
  /\ \E n \in 0..Min(MaxThreads, MAX_APPS) : app_queue = ThreadedQueue(n)
  /\ cfgRet = "none" /\ dirIdx = AutostartDirCount /\ nread = 0
  /\ de = ZeroEntry
  /\ total_found = 0 /\ queued = 0 /\ scanLog = <<>>
  /\ added = app_queue.apps
  /\ li = 0 /\ success_count = 0 /\ slept = <<>> /\ launches = <<>>
  /\ children = <<>>
  /\ ThrIdle

ThrFrame ==
  UNCHANGED <<sanVars, cfgVars, parseVars, app_queue, cfgRet, dirIdx, nread,
              de, total_found, queued, scanLog, added, success_count, slept,
              launches, children>>

\* The process ends: the threads that have not yet called run_command
\* never do.
ProcessExit(ts) ==
  [k \in 1..Len(ts) |->
     IF ts[k].state = "sleeping" THEN [ts[k] EXCEPT !.state = "killed"]
     ELSE ts[k]]

\* Lines 380-383 and main lines 477-484: nothing queued.
ThrLaunchNone ==
  /\ pc = "t_launch"
  /\ Len(app_queue.apps) = 0
  /\ pc' = "exited"
  /\ UNCHANGED <<li, thrVars>>
  /\ ThrFrame

\* Lines 385-394: the array of handles, not initialized, and the counter.
ThrLaunchBegin ==
  /\ pc = "t_launch"
  /\ Len(app_queue.apps) # 0
  /\ threads' = [k \in 1..Len(app_queue.apps) |-> Uninit]
  /\ threads_created' = 0
  /\ li' = 0
  /\ pc' = "t_create"
  /\ UNCHANGED <<thr, detached, now>>
  /\ ThrFrame

\* Lines 395-399 and 405-409: malloc fails, or pthread_create fails and
\* the argument is freed; either way continue, with threads[i] not written.
ThrCreateFail ==
  /\ pc = "t_create"
  /\ li < Len(app_queue.apps)
  /\ li' = li + 1
  /\ UNCHANGED <<pc, thrVars>>
  /\ ThrFrame

\* Lines 401-415: pthread_create stores the handle in threads[i] and starts
\* the thread, which begins its sleep; count it; sleep 10 ms.
ThrCreate ==
  /\ pc = "t_create"
  /\ li < Len(app_queue.apps)
  /\ threads' = [threads EXCEPT ![li + 1] = TidOf(li)]
  /\ thr' = Append(thr, [tid |-> TidOf(li), thread_num |-> li,
                          name |-> app_queue.apps[li + 1].name,
                          wake |-> now + ThreadDelay(li),
                          state |-> "sleeping"])
  /\ threads_created' = threads_created + 1
  /\ now' = now + CreateGapMs
  /\ li' = li + 1
  /\ UNCHANGED <<pc, detached>>
  /\ ThrFrame

\* Lines 416-422: the loop ends; sleep(1).
ThrCreated ==
  /\ pc = "t_create"
  /\ li >= Len(app_queue.apps)
  /\ \E late \in Lateness : now' = now + StartGraceMs + late
  /\ li' = 0
  /\ pc' = "t_detach"
  /\ UNCHANGED <<threads, threads_created, thr, detached>>
  /\ ThrFrame

\* Lines 426-428: pthread_detach(threads[i]).
ThrDetach ==
  /\ pc = "t_detach"
  /\ li < threads_created
  /\ \E h \in HandleRead(threads[li + 1]) : detached' = Append(detached, h)
  /\ li' = li + 1
  /\ UNCHANGED <<pc, threads, threads_created, thr, now>>
  /\ ThrFrame

\* Line 429 and main lines 477-484: launch_queued_apps returns, main
\* destroys the mutex, prints and returns 0.
ThrReturn ==
  /\ pc = "t_detach"
  /\ li >= threads_created
  /\ thr' = ProcessExit(thr)
  /\ pc' = "exited"
  /\ UNCHANGED <<li, threads, threads_created, detached, now>>
  /\ ThrFrame

\* launch_app_thread lines 295-301 in one of the threads: its nanosleep has
\* ended; it calls run_command and frees its argument.
LaunchAppThread ==
  /\ pc # "exited"
  /\ \E k \in 1..Len(thr) :
       /\ thr[k].state = "sleeping"
       /\ thr[k].wake <= now
       /\ thr' = [thr EXCEPT ![k].state = "launched"]
  /\ UNCHANGED <<pc, li, threads, threads_created, detached, now>>
  /\ ThrFrame

ThreadedNext ==
  \/ ThrLaunchNone \/ ThrLaunchBegin
  \/ ThrCreateFail \/ ThrCreate \/ ThrCreated
  \/ ThrDetach \/ ThrReturn
  \/ LaunchAppThread

SpecThreaded == ThrInit /\ [][ThreadedNext]_vars

(***************************************************************************)
(* C24.  In the threaded launcher every launch thread that was created     *)
(* completes its launch: whatever the size of the queue, when the program  *)
(* has ended the run_command of every created thread has been executed,    *)
(* although main does not join the threads.                                *)
(***************************************************************************)
C24_EveryThreadLaunches ==
  pc = "exited" => \A k \in 1..Len(thr) : thr[k].state = "launched"

(***************************************************************************)
(* C25.  In the threaded launcher, whichever thread creations fail, every  *)
(* handle passed to pthread_detach belongs to a thread that was created,   *)
(* and every created thread is detached exactly once: never twice, and     *)
(* once when launch_queued_apps has returned.                              *)
(***************************************************************************)
CreatedTids == {thr[k].tid : k \in 1..Len(thr)}

TimesDetached(t) == Cardinality({j \in 1..Len(detached) : detached[j] = t})

C25_DetachMatchesCreate ==
  /\ \A j \in 1..Len(detached) : detached[j] \in CreatedTids
  /\ \A t \in CreatedTids : TimesDetached(t) <= 1
  /\ pc = "exited" => \A t \in CreatedTids : TimesDetached(t) = 1

(***************************************************************************)
(* C26.  For every command string the output of remove_desktop_specifiers  *)
(* contains no % character, is no longer than the input, and is left       *)
(* unchanged by a second remove_desktop_specifiers (idempotence); the      *)
(* same holds of the command run_command copies and sanitizes.             *)
(***************************************************************************)
NoMarker(s) == \A i \in 1..Len(s) : s[i] # "%"

CleanOutput(cmd, out) ==
  /\ NoMarker(out)
  /\ Len(out) <= Len(cmd)
  /\ remove_desktop_specifiers(out) = out

C26_SanitizerOutput ==
  pc = "sanitized" =>
    /\ CleanOutput(sanIn, CStr(san.buf))
    /\ \A e \in ExecValues : CleanOutput(e, SanitizedCopy(e))

\* A command with two adjacent markers between two letters has been
\* sanitized: the output is the two letters, it is shorter than the input,
\* and sanitizing it again changes nothing.
C26_Witness ==
  /\ pc = "sanitized"
  /\ sanIn = <<"u", "%", "%", "u">>
  /\ CStr(san.buf) = <<"u", "u">>
  /\ remove_desktop_specifiers(CStr(san.buf)) = CStr(san.buf)

====
